---------------------------- MODULE Spec2Model ----------------------------
(***************************************************************************)
(* Model of scripts/generateHintList.py: the word-acceptance predicates    *)
(* (get_profanity_list, contains_profanity, is_base_form, is_plural,       *)
(* is_valid_word), the dictionary loader get_sowpods and the batch         *)
(* pipeline process_word_list.                                             *)
(*                                                                         *)
(* Words are TLA+ strings.  Two specifications share the variables:        *)
(*   SpecFn  one call of one of the pure functions on drawn inputs;        *)
(*   Spec    one run of process_word_list, statement group by group.       *)
(***************************************************************************)
EXTENDS Integers, Sequences, FiniteSets, TLC

(***************************************************************************)
(* Python str primitives used by the script.                               *)
(***************************************************************************)
LowerLetters == "abcdefghijklmnopqrstuvwxyz"
UpperLetters == "ABCDEFGHIJKLMNOPQRSTUVWXYZ"
Digits == "0123456789"

\* s[i] (1-based), a one-character string
CharAt(s, i) == SubSeq(s, i, i)

CharsOf(s) == {CharAt(s, i) : i \in 1..Len(s)}

LowerSet == CharsOf(LowerLetters)
UpperSet == CharsOf(UpperLetters)
DigitSet == CharsOf(Digits)

\* str.lower() on one character: ASCII capitals map to their small letter
LowerOfUpper ==
  [c \in UpperSet |->
     CharAt(LowerLetters, CHOOSE i \in 1..Len(UpperLetters) : CharAt(UpperLetters, i) = c)]
LowerChar(c) == IF c \in UpperSet THEN LowerOfUpper[c] ELSE c

RECURSIVE lower(_)
lower(s) ==
  IF s = "" THEN "" ELSE LowerChar(CharAt(s, 1)) \o lower(SubSeq(s, 2, Len(s)))

\* str.isalpha(): non-empty and every character a letter ("é" and "ï" stand
\* for the non-ASCII letters, which isalpha() accepts)
Letters == LowerSet \cup UpperSet \cup {"é", "ï"}
IsLetter(c) == c \in Letters
isalpha(s) == s # "" /\ \A i \in 1..Len(s) : IsLetter(CharAt(s, i))

\* re.search(r'\d', s)
HasDigit(s) == \E i \in 1..Len(s) : CharAt(s, i) \in DigitSet

\* sub in s
Contains(sub, s) ==
  \E i \in 1..(Len(s) - Len(sub) + 1) : SubSeq(s, i, i + Len(sub) - 1) = sub

\* s.endswith(suf), s.startswith(pre)
endswith(s, suf) ==
  Len(s) >= Len(suf) /\ SubSeq(s, Len(s) - Len(suf) + 1, Len(s)) = suf
startswith(s, pre) == Len(s) >= Len(pre) /\ SubSeq(s, 1, Len(pre)) = pre
EndsWithAny(s, sufs) == \E suf \in sufs : endswith(s, suf)

\* s[:-n] and s[k:] (0-based k)
DropLast(s, n) == IF Len(s) <= n THEN "" ELSE SubSeq(s, 1, Len(s) - n)
From(s, k) == IF k >= Len(s) THEN "" ELSE SubSeq(s, k + 1, Len(s))
\* s[-n], "" when s is shorter
FromEnd(s, n) == IF Len(s) < n THEN "" ELSE CharAt(s, Len(s) - n + 1)

(***************************************************************************)
(* get_profanity_list                                                      *)
(***************************************************************************)
base_profanity ==
  {"fuck", "shit", "cock", "dick", "penis", "pussy", "cunt", "vagina", "cum", "semen",
   "whore", "slut", "bitch", "hooker", "hoe", "skank", "queer", "fag", "dyke",
   "piss", "poop", "crap", "ass", "arse", "butt",
   "nigger", "nigga", "chink", "spic", "wetback", "kike", "kyke", "fagot", "faggot",
   "retard", "tard", "homo", "tranny", "twat", "paki", "gook", "honky", "wop", "dago",
   "raghead", "towelhead", "beaner", "gringo", "cracka", "cracker", "redneck", "whitey",
   "zipperhead", "wigger", "wigga", "wog", "yid",
   "goddamn", "goddam", "damn", "hell", "bastard",
   "tit", "tits", "titty", "boob", "knocker", "ballsack", "nuts", "nutsack",
   "douche", "douchebag", "scumbag", "motherfucker", "fucker", "wanker", "bollocks",
   "prick", "schmuck", "asshole", "arsehole", "jackass", "dumbass", "dipshit",
   "cocksucker", "blowjob", "handjob", "rimjob", "jizz", "spunk", "dildo", "dong",
   "wang", "schlong", "dingus", "weiner", "wiener", "knob", "pecker", "chode"}

prefixes ==
  {"dumb", "horse", "bull", "chicken", "jack", "ass", "mother", "dog", "pig",
   "dick", "cock", "pussy", "cunt", "butt", "cum", "jizz", "circle", "circle"}

suffixes ==
  {"hole", "head", "face", "wipe", "wad", "stain", "bag", "sucker", "licker",
   "lover", "fucker", "eating", "sucking", "jockey", "monkey", "breath", "brain"}

variations == {"ing", "er", "ed", "y", "ier", "iest", "in", "ez", "es", "s"}

profanity_substrings_literal ==
  {"fuck", "shit", "cunt", "cock", "dick", "pussy", "whore", "slut", "bitch",
   "fag", "nigg", "spic", "dyke", "homo", "queer", "tard"}

\* profanity_set after line 71 and after each of the three nested loops;
\* every loop iterates over base_profanity and adds to profanity_set.
profanity_set_copy == base_profanity
profanity_set_prefixed ==
  profanity_set_copy \cup {prefix \o base : prefix \in prefixes, base \in base_profanity}
profanity_set_suffixed ==
  profanity_set_prefixed \cup {base \o suffix : base \in base_profanity, suffix \in suffixes}
profanity_set_varied ==
  profanity_set_suffixed \cup
    {w \o variation : w \in base_profanity, variation \in variations}

\* Mutant: the suffix loop iterates over the growing profanity_set instead
\* of the base words, so suffixes are added to already-prefixed words.
profanity_set_reexpanded ==
  profanity_set_prefixed \cup
    {base \o suffix : base \in profanity_set_prefixed, suffix \in suffixes} \cup
    {w \o variation : w \in base_profanity, variation \in variations}
get_profanity_list_reexpanded ==
  [set |-> profanity_set_reexpanded, substrings |-> profanity_substrings_literal]

\* Mutant: every base word is also used as a substring pattern.
get_profanity_list_allsub ==
  [set |-> profanity_set_varied, substrings |-> base_profanity]

get_profanity_list ==
  [set |-> profanity_set_varied, substrings |-> profanity_substrings_literal]

(***************************************************************************)
(* SnowballStemmer("english").stem, the stemmer process_word_list builds.  *)
(* The stemmer keeps the word and its regions R1 and R2 as three strings   *)
(* and edits them together; st is the record [w, r1, r2].                  *)
(***************************************************************************)
Vowels == CharsOf("aeiouy")
double_consonants == {"bb", "dd", "ff", "gg", "mm", "nn", "pp", "rr", "tt"}
li_ending == CharsOf("cdeghkmnrt")
step0_suffixes == <<"'s'", "'s", "'">>
step1a_suffixes == <<"sses", "ied", "ies", "us", "ss", "s">>
step1b_suffixes == <<"eedly", "ingly", "edly", "eed", "ing", "ed">>
step2_suffixes ==
  <<"ization", "ational", "fulness", "ousness", "iveness", "tional", "biliti",
    "lessli", "entli", "ation", "alism", "aliti", "ousli", "iviti", "fulli",
    "enci", "anci", "abli", "izer", "ator", "alli", "bli", "ogi", "li">>
step3_suffixes ==
  <<"ational", "tional", "alize", "icate", "iciti", "ative", "ical", "ness", "ful">>
step4_suffixes ==
  <<"ement", "ance", "ence", "able", "ible", "ment", "ant", "ent", "ism", "ate",
    "iti", "ous", "ive", "ize", "ion", "al", "er", "ic">>

special_words ==
  {<<"skis", "ski">>, <<"skies", "sky">>, <<"dying", "die">>, <<"lying", "lie">>,
   <<"tying", "tie">>, <<"idly", "idl">>, <<"gently", "gentl">>, <<"ugly", "ugli">>,
   <<"early", "earli">>, <<"only", "onli">>, <<"singly", "singl">>, <<"sky", "sky">>,
   <<"news", "news">>, <<"howe", "howe">>, <<"atlas", "atlas">>, <<"cosmos", "cosmos">>,
   <<"bias", "bias">>, <<"andes", "andes">>, <<"inning", "inning">>,
   <<"innings", "inning">>, <<"outing", "outing">>, <<"outings", "outing">>,
   <<"canning", "canning">>, <<"cannings", "canning">>, <<"herring", "herring">>,
   <<"herrings", "herring">>, <<"earring", "earring">>, <<"earrings", "earring">>,
   <<"proceed", "proceed">>, <<"proceeds", "proceed">>, <<"proceeded", "proceed">>,
   <<"proceeding", "proceed">>, <<"exceed", "exceed">>, <<"exceeds", "exceed">>,
   <<"exceeded", "exceed">>, <<"exceeding", "exceed">>, <<"succeed", "succeed">>,
   <<"succeeds", "succeed">>, <<"succeeded", "succeed">>, <<"succeeding", "succeed">>}

\* the first suffix of the tuple that ends w, "" when none does
FirstSuffix(w, sufs) ==
  IF \E i \in 1..Len(sufs) : endswith(w, sufs[i])
  THEN sufs[CHOOSE i \in 1..Len(sufs) :
              /\ endswith(w, sufs[i])
              /\ \A j \in 1..(i - 1) : ~endswith(w, sufs[j])]
  ELSE ""

HasVowel(s) == \E i \in 1..Len(s) : CharAt(s, i) \in Vowels

\* the text after the first non-vowel that follows a vowel, "" when there is none
Region(w) ==
  LET hits == {i \in 2..Len(w) : CharAt(w, i) \notin Vowels /\ CharAt(w, i - 1) \in Vowels}
  IN  IF hits = {} THEN ""
      ELSE From(w, CHOOSE i \in hits : \A j \in hits : i <= j)

\* an initial y, and every y after a vowel, is marked Y (left to right)
RECURSIVE MarkY(_, _)
MarkY(w, i) ==
  IF i > Len(w) THEN w
  ELSE IF CharAt(w, i) = "y" /\ (i = 1 \/ CharAt(w, i - 1) \in Vowels)
       THEN MarkY(SubSeq(w, 1, i - 1) \o "Y" \o From(w, i), i + 1)
       ELSE MarkY(w, i + 1)

RECURSIVE UnmarkY(_)
UnmarkY(w) ==
  IF w = "" THEN ""
  ELSE (IF CharAt(w, 1) = "Y" THEN "y" ELSE CharAt(w, 1)) \o UnmarkY(From(w, 1))

Regions(w) ==
  IF startswith(w, "gener") \/ startswith(w, "arsen")
  THEN [w |-> w, r1 |-> From(w, 5), r2 |-> Region(From(w, 5))]
  ELSE IF startswith(w, "commun")
  THEN [w |-> w, r1 |-> From(w, 6), r2 |-> Region(From(w, 6))]
  ELSE [w |-> w, r1 |-> Region(w), r2 |-> Region(Region(w))]

\* word, r1 and r2 each lose their last n characters
Cut(st, n) == [w |-> DropLast(st.w, n), r1 |-> DropLast(st.r1, n), r2 |-> DropLast(st.r2, n)]

\* suffix suf is replaced by new in word, r1 and r2; a region shorter than
\* the suffix becomes short2 (r2) or "" (r1)
Replace(st, suf, new, short2) ==
  [w  |-> DropLast(st.w, Len(suf)) \o new,
   r1 |-> IF Len(st.r1) >= Len(suf) THEN DropLast(st.r1, Len(suf)) \o new ELSE "",
   r2 |-> IF Len(st.r2) >= Len(suf) THEN DropLast(st.r2, Len(suf)) \o new ELSE short2]

Step0(st) ==
  LET suf == FirstSuffix(st.w, step0_suffixes)
  IN  IF suf = "" THEN st ELSE Cut(st, Len(suf))

Step1a(st) ==
  LET suf == FirstSuffix(st.w, step1a_suffixes)
  IN  IF suf = "sses" THEN Cut(st, 2)
      ELSE IF suf \in {"ied", "ies"}
      THEN (IF Len(st.w) - Len(suf) > 1 THEN Cut(st, 2) ELSE Cut(st, 1))
      ELSE IF suf = "s" /\ HasVowel(DropLast(st.w, 2)) THEN Cut(st, 1)
      ELSE st

\* after ed/ing is removed: restore an e, undouble, or lengthen a short word
Step1bFix(st) ==
  IF EndsWithAny(st.w, {"at", "bl", "iz"})
  THEN [w  |-> st.w \o "e",
        r1 |-> st.r1 \o "e",
        r2 |-> IF Len(st.w \o "e") > 5 \/ Len(st.r1 \o "e") >= 3
               THEN st.r2 \o "e" ELSE st.r2]
  ELSE IF EndsWithAny(st.w, double_consonants) THEN Cut(st, 1)
  ELSE IF \/ /\ st.r1 = ""
             /\ Len(st.w) >= 3
             /\ FromEnd(st.w, 1) \notin Vowels
             /\ FromEnd(st.w, 1) \notin {"w", "x", "Y"}
             /\ FromEnd(st.w, 2) \in Vowels
             /\ FromEnd(st.w, 3) \notin Vowels
          \/ /\ st.r1 = ""
             /\ Len(st.w) = 2
             /\ CharAt(st.w, 1) \in Vowels
             /\ CharAt(st.w, 2) \notin Vowels
  THEN [w  |-> st.w \o "e",
        r1 |-> IF Len(st.r1) > 0 THEN st.r1 \o "e" ELSE st.r1,
        r2 |-> IF Len(st.r2) > 0 THEN st.r2 \o "e" ELSE st.r2]
  ELSE st

Step1b(st) ==
  LET suf == FirstSuffix(st.w, step1b_suffixes)
  IN  IF suf = "" THEN st
      ELSE IF suf \in {"eed", "eedly"}
      THEN (IF endswith(st.r1, suf) THEN Replace(st, suf, "ee", "") ELSE st)
      ELSE IF HasVowel(DropLast(st.w, Len(suf))) THEN Step1bFix(Cut(st, Len(suf)))
      ELSE st

Step1c(st) ==
  IF /\ Len(st.w) > 2
     /\ FromEnd(st.w, 1) \in {"y", "Y"}
     /\ FromEnd(st.w, 2) \notin Vowels
  THEN Replace(st, "y", "i", "")
  ELSE st

Step2(st) ==
  LET suf == FirstSuffix(st.w, step2_suffixes)
  IN  IF suf = "" \/ ~endswith(st.r1, suf) THEN st
      ELSE IF suf = "tional" THEN Cut(st, 2)
      ELSE IF suf \in {"enci", "anci", "abli"} THEN Replace(st, "i", "e", "")
      ELSE IF suf = "entli" THEN Cut(st, 2)
      ELSE IF suf \in {"izer", "ization"} THEN Replace(st, suf, "ize", "")
      ELSE IF suf \in {"ational", "ation", "ator"} THEN Replace(st, suf, "ate", "e")
      ELSE IF suf \in {"alism", "aliti", "alli"} THEN Replace(st, suf, "al", "")
      ELSE IF suf = "fulness" THEN Cut(st, 4)
      ELSE IF suf \in {"ousli", "ousness"} THEN Replace(st, suf, "ous", "")
      ELSE IF suf \in {"iveness", "iviti"} THEN Replace(st, suf, "ive", "e")
      ELSE IF suf \in {"biliti", "bli"} THEN Replace(st, suf, "ble", "")
      ELSE IF suf = "ogi" /\ FromEnd(st.w, 4) = "l" THEN Cut(st, 1)
      ELSE IF suf \in {"fulli", "lessli"} THEN Cut(st, 2)
      ELSE IF suf = "li" /\ FromEnd(st.w, 3) \in li_ending THEN Cut(st, 2)
      ELSE st

Step3(st) ==
  LET suf == FirstSuffix(st.w, step3_suffixes)
  IN  IF suf = "" \/ ~endswith(st.r1, suf) THEN st
      ELSE IF suf = "tional" THEN Cut(st, 2)
      ELSE IF suf = "ational" THEN Replace(st, suf, "ate", "")
      ELSE IF suf = "alize" THEN Cut(st, 3)
      ELSE IF suf \in {"icate", "iciti", "ical"} THEN Replace(st, suf, "ic", "")
      ELSE IF suf \in {"ful", "ness"} THEN Cut(st, Len(suf))
      ELSE IF suf = "ative" /\ endswith(st.r2, suf) THEN Cut(st, 5)
      ELSE st

Step4(st) ==
  LET suf == FirstSuffix(st.w, step4_suffixes)
  IN  IF suf = "" \/ ~endswith(st.r2, suf) THEN st
      ELSE IF suf = "ion"
      THEN (IF FromEnd(st.w, 4) \in {"s", "t"} THEN Cut(st, 3) ELSE st)
      ELSE Cut(st, Len(suf))

Step5(st) ==
  IF endswith(st.r2, "l") /\ FromEnd(st.w, 2) = "l" THEN DropLast(st.w, 1)
  ELSE IF endswith(st.r2, "e") THEN DropLast(st.w, 1)
  ELSE IF /\ endswith(st.r1, "e")
          /\ Len(st.w) >= 4
          /\ \/ FromEnd(st.w, 2) \in Vowels
             \/ FromEnd(st.w, 2) \in {"w", "x", "Y"}
             \/ FromEnd(st.w, 3) \notin Vowels
             \/ FromEnd(st.w, 4) \in Vowels
  THEN DropLast(st.w, 1)
  ELSE st.w

SnowballStem(word) ==
  LET w0 == lower(word)
  IN  IF Len(w0) <= 2 THEN w0
      ELSE IF \E p \in special_words : p[1] = w0
      THEN (CHOOSE p \in special_words : p[1] = w0)[2]
      ELSE LET w1 == IF startswith(w0, "'") THEN From(w0, 1) ELSE w0
           IN  UnmarkY(Step5(Step4(Step3(Step2(Step1c(Step1b(Step1a(Step0(
                 Regions(MarkY(w1, 1)))))))))))

(***************************************************************************)
(* The stemmer argument.  process_word_list passes the Snowball stemmer;   *)
(* the predicates take any object with a stem method, so the function      *)
(* calls are also made with stand-ins that leave every word alone, drop    *)
(* its last character, or drop a final s.                                  *)
(***************************************************************************)
Stemmers == {"snowball", "identity", "chop", "strip_s"}

stem(stmr, w) ==
  CASE stmr = "snowball" -> SnowballStem(w)
    [] stmr = "identity" -> w
    [] stmr = "chop"     -> DropLast(w, 1)
    [] stmr = "strip_s"  -> IF endswith(w, "s") THEN DropLast(w, 1) ELSE w

(***************************************************************************)
(* The predicates.                                                         *)
(***************************************************************************)
\* Mutant: the else branch answers True.
is_plural_default_true(w, stmr) ==
  IF EndsWithAny(w, {"s", "es", "ies"}) THEN stem(stmr, w) # w ELSE TRUE

is_plural(w, stmr) ==
  IF EndsWithAny(w, {"s", "es", "ies"})
  THEN LET singular == stem(stmr, w) IN singular # w
  ELSE FALSE

\* Mutant: the word is not lowercased before the lookups.
contains_profanity_nolower(w, pset, psubs) ==
  w \in pset \/ \E substring \in psubs : Contains(substring, w)

contains_profanity(w, pset, psubs) ==
  LET lw == lower(w)
  IN  IF lw \in pset THEN TRUE
      ELSE \E substring \in psubs : Contains(substring, lw)

\* Mutant: only the stem is compared, the suffix test is missing.
is_base_form_stem_only(w, stmr) == stem(stmr, w) = w

is_base_form(w, stmr) ==
  LET base == stem(stmr, w)
  IN  base = w /\ ~EndsWithAny(w, {"ed", "ing", "s", "es", "ies"})

\* Mutant: the length test is len(word) < 2.
is_valid_word_short(w, vocabulary, names, stmr, pset, psubs) ==
  LET lw == lower(w)
  IN  IF \/ Len(lw) < 2
         \/ HasDigit(lw)
         \/ \E p \in {"'", "-"} : Contains(p, lw)
         \/ lw \in names
         \/ ~isalpha(lw)
         \/ ~is_base_form(lw, stmr)
         \/ contains_profanity(lw, pset, psubs)
      THEN FALSE
      ELSE lw \in vocabulary

is_valid_word(w, vocabulary, names, stmr, pset, psubs) ==
  LET lw == lower(w)
  IN  IF \/ Len(lw) <= 2
         \/ HasDigit(lw)
         \/ \E p \in {"'", "-"} : Contains(p, lw)
         \/ lw \in names
         \/ ~isalpha(lw)
         \/ ~is_base_form(lw, stmr)
         \/ contains_profanity(lw, pset, psubs)
      THEN FALSE
      ELSE lw \in vocabulary

(***************************************************************************)
(* Sorting, slicing and dict assignment as process_word_list uses them.    *)
(* An entry is <<word, frequency>>; a dict is the sequence of its items in *)
(* insertion order.                                                        *)
(***************************************************************************)
Min(a, b) == IF a <= b THEN a ELSE b

\* Mutant: the slice is missing.
Take_all(seq, n) == seq

\* seq[:n]
Take(seq, n) == SubSeq(seq, 1, Min(n, Len(seq)))

\* Mutant: an unstable sort, e goes in front of the entries equal to it.
InsertDesc_unstable(sorted, e) ==
  LET k == Cardinality({j \in 1..Len(sorted) : sorted[j][2] > e[2]})
  IN  SubSeq(sorted, 1, k) \o <<e>> \o SubSeq(sorted, k + 1, Len(sorted))

\* e goes behind every entry whose frequency is >= its own
InsertDesc(sorted, e) ==
  LET k == Cardinality({j \in 1..Len(sorted) : sorted[j][2] >= e[2]})
  IN  SubSeq(sorted, 1, k) \o <<e>> \o SubSeq(sorted, k + 1, Len(sorted))

\* sorted(items, key=lambda x: x[1], reverse=True): stable, ties keep their order
RECURSIVE SortDescFrom(_, _, _)
SortDescFrom(items, k, acc) ==
  IF k > Len(items) THEN acc ELSE SortDescFrom(items, k + 1, InsertDesc(acc, items[k]))
SortDesc(items) == SortDescFrom(items, 1, <<>>)

\* Mutant: an existing key keeps its old value (setdefault).
DictSet_keep_first(d, key, value) ==
  IF \E j \in 1..Len(d) : d[j][1] = key THEN d ELSE Append(d, <<key, value>>)

\* d[key] = value: an existing key keeps its place and takes the new value
DictSet(d, key, value) ==
  IF \E j \in 1..Len(d) : d[j][1] = key
  THEN [j \in 1..Len(d) |-> IF d[j][1] = key THEN <<key, value>> ELSE d[j]]
  ELSE Append(d, <<key, value>>)

(***************************************************************************)
(* get_sowpods.  A file is [exists, text], its text the sequence of its    *)
(* whitespace-separated tokens.  The request either raises                 *)
(* (ConnectionError) or answers with a status code.                        *)
(***************************************************************************)
NoFile == [exists |-> FALSE, text |-> <<>>]
LowerText(text) == [j \in 1..Len(text) |-> lower(text[j])]

\* Mutant: a missing file is read as an empty word list instead of raising.
get_sowpods_swallow(file, resp, remote_text) ==
  IF ~file.exists /\ resp = "ConnectionError"
  THEN [raised |-> FALSE, file |-> file, words |-> {}]
  ELSE LET written == IF ~file.exists /\ resp = "200"
                      THEN [exists |-> TRUE, text |-> LowerText(remote_text)]
                      ELSE file
       IN  [raised |-> FALSE, file |-> written,
            words |-> {lower(written.text[j]) : j \in 1..Len(written.text)}]

\* The result: whether an exception left the function, the cache file
\* afterwards, and the returned set.
get_sowpods(file, resp, remote_text) ==
  IF ~file.exists /\ resp = "ConnectionError"
  THEN [raised |-> TRUE, file |-> file, words |-> {}]
  ELSE LET written == IF ~file.exists /\ resp = "200"
                      THEN [exists |-> TRUE, text |-> LowerText(remote_text)]
                      ELSE file
       IN  IF ~written.exists
           THEN [raised |-> TRUE, file |-> written, words |-> {}]
           ELSE [raised |-> FALSE, file |-> written,
                 words |-> {lower(written.text[j]) : j \in 1..Len(written.text)}]

(***************************************************************************)
(* Bounds and input sets.                                                  *)
(***************************************************************************)
MaxWordLen == 3
MaxCorpus == 3
MaxFreq == 2

\* every string over GenAlphabet of length <= n
GenAlphabet == {"a", "s", "A", "1", "-"}
RECURSIVE WordsUpTo(_)
WordsUpTo(n) ==
  IF n = 0 THEN {""}
  ELSE LET shorter == WordsUpTo(n - 1)
       IN  shorter \cup {w \o c : w \in shorter, c \in GenAlphabet}

ExampleWords ==
  {"ab", "word2", "o'clock", "apple", "Apple", "APPLE", "cat", "Cat", "cats", "bus",
   "gas", "time", "dog", "walked", "running", "ponies", "boxes", "hellscape", "hell",
   "shell", "class", "ass", "bass", "fuck", "Fuck", "fucks", "shithead", "dumbass",
   "asshole", "bastard", "retarded", "leotard", "Scunthorpe", "homonym", "faggot",
   "tits", "été", "naïve", "a b", "ice-cream", "may", "the", "x_y"}

Words == ExampleWords \cup WordsUpTo(MaxWordLen)

\* the word lists the collaborators deliver
nltk_stopwords == {"the"}
nltk_names == {"May", "Bob"}
sowpods_txt == <<"APPLE", "CAT", "CATS", "DOG", "MAY", "THE", "TIME">>
Responses == {"200", "404", "500", "ConnectionError"}

\* The script sets NUMBER_OF_WORDS to 20000; the runs also use limits small
\* enough for the slice [:NUMBER_OF_WORDS] to cut something off.
NUMBER_OF_WORDS_script == 20000
Limits == {1, 2, NUMBER_OF_WORDS_script}

CorpusWords == {"cat", "Cat", "dog", "cats", "the"}
Entries == {<<w, f>> : w \in CorpusWords, f \in 1..MaxFreq}

\* the dicts of at most n items: sequences of entries with distinct keys
RECURSIVE Dicts(_)
Dicts(n) ==
  IF n = 0 THEN {<<>>}
  ELSE LET shorter == Dicts(n - 1)
       IN  shorter \cup
           {Append(d, e) : d \in {x \in shorter : Len(x) = n - 1},
                           e \in Entries}
Corpora == {d \in Dicts(MaxCorpus) : \A a, b \in 1..Len(d) : a # b => d[a][1] # d[b][1]}

\* the end-to-end example: its corpus, dictionary and limit
ExampleCorpus ==
  <<(<<"the", 100>>), (<<"cats", 90>>), (<<"apple", 80>>), (<<"fuck", 70>>), (<<"xyz123", 60>>)>>
ExampleDictionary == <<"apple", "cats">>

(***************************************************************************)
(* State.                                                                  *)
(***************************************************************************)
VARIABLES
  word,                 \* SpecFn: the word argument
  stemmer,              \* the stemmer argument / local
  valid_words,          \* the dictionary set argument / local
  name_set,             \* the name set argument / local
  profanity,            \* SpecFn: the two profanity arguments
  called,               \* SpecFn: the function called last
  ret,                  \* SpecFn: what a predicate returned
  ret_lists,            \* SpecFn: what get_profanity_list returned
  pc,                   \* Spec: where process_word_list stands
  NUMBER_OF_WORDS,      \* the limit of both lists
  stop_words,
  freq_dict,            \* get_frequency_dict('en'), items in iteration order
  sowpods_file,         \* SOWPODS_PATH
  sowpods_remote,       \* the text behind the URL
  response,             \* what requests.get(url) does
  raw_frequencies,
  frequency_file,       \* FREQUENCY_OUTPUT_PATH
  filtered_words,       \* the dict filled by the loop
  next_item,            \* index of the item the loop takes next
  word_frequencies,
  hints_file            \* FILTERED_OUTPUT_PATH

fn_vars == <<word, profanity, called, ret, ret_lists>>
shared_vars == <<stemmer, valid_words, name_set>>
run_vars ==
  <<pc, NUMBER_OF_WORDS, stop_words, freq_dict, sowpods_file, sowpods_remote, response,
    raw_frequencies, frequency_file, filtered_words, next_item, word_frequencies, hints_file>>
vars == <<fn_vars, shared_vars, run_vars>>

\* The profanity arguments of a call are either the lists the script builds
\* (built; the state then need not carry their thousands of members) or the
\* small lists given in the record.
BuiltLists == [built |-> TRUE, set |-> {}, substrings |-> {}]
NoLists == [built |-> FALSE, set |-> {}, substrings |-> {}]
ArgSet(p) == IF p.built THEN get_profanity_list.set ELSE p.set
ArgSubstrings(p) == IF p.built THEN get_profanity_list.substrings ELSE p.substrings

Unwritten == [written |-> FALSE, header |-> "", rows |-> <<>>]

RunIdle ==
  /\ pc = "idle" /\ NUMBER_OF_WORDS = NUMBER_OF_WORDS_script /\ stop_words = {} /\ freq_dict = <<>>
  /\ sowpods_file = NoFile /\ sowpods_remote = <<>> /\ response = "none"
  /\ raw_frequencies = <<>> /\ frequency_file = Unwritten /\ filtered_words = <<>>
  /\ next_item = 1 /\ word_frequencies = <<>> /\ hints_file = Unwritten

(***************************************************************************)
(* SpecFn: one call of a predicate on drawn arguments, or calls of         *)
(* get_profanity_list.                                                     *)
(***************************************************************************)
ProfanityArgs(w) ==
  {BuiltLists,
   [built |-> FALSE, set |-> {lower(w)}, substrings |-> {}],
   [built |-> FALSE, set |-> {}, substrings |-> {"s"}],
   NoLists}

InitFn ==
  /\ word = "" /\ stemmer = "snowball" /\ valid_words = {} /\ name_set = {}
  /\ profanity = NoLists
  /\ called = "none" /\ ret = FALSE
  /\ ret_lists = [set |-> {}, substrings |-> {}]
  /\ RunIdle

NoCallYet == called = "none"

Call_is_valid_word ==
  /\ NoCallYet
  /\ \E w \in Words, stmr \in Stemmers :
       \E vocabulary \in {{}, {lower(w)}, {w, "apple"}}, names \in {{}, {lower(w)}},
          p \in ProfanityArgs(w) :
         /\ word' = w /\ stemmer' = stmr /\ valid_words' = vocabulary
         /\ name_set' = names /\ profanity' = p
         /\ ret' = is_valid_word(w, vocabulary, names, stmr, ArgSet(p), ArgSubstrings(p))
  /\ called' = "is_valid_word"
  /\ UNCHANGED <<ret_lists, run_vars>>

Call_contains_profanity ==
  /\ NoCallYet
  /\ \E w \in Words :
       \E p \in ProfanityArgs(w) :
         /\ word' = w /\ profanity' = p
         /\ ret' = contains_profanity(w, ArgSet(p), ArgSubstrings(p))
  /\ called' = "contains_profanity"
  /\ UNCHANGED <<ret_lists, shared_vars, run_vars>>

Call_is_base_form ==
  /\ NoCallYet
  /\ \E w \in Words, stmr \in Stemmers :
       /\ word' = w /\ stemmer' = stmr
       /\ ret' = is_base_form(w, stmr)
  /\ called' = "is_base_form"
  /\ UNCHANGED <<profanity, ret_lists, valid_words, name_set, run_vars>>

Call_is_plural ==
  /\ NoCallYet
  /\ \E w \in Words, stmr \in Stemmers :
       /\ word' = w /\ stemmer' = stmr
       /\ ret' = is_plural(w, stmr)
  /\ called' = "is_plural"
  /\ UNCHANGED <<profanity, ret_lists, valid_words, name_set, run_vars>>

\* get_profanity_list takes no argument; it is called once or several times
\* in a row, and the state keeps what the last call returned.
Call_get_profanity_list ==
  /\ called \in {"none", "get_profanity_list"}
  /\ ret_lists' = get_profanity_list
  /\ called' = "get_profanity_list"
  /\ UNCHANGED <<word, profanity, ret, shared_vars, run_vars>>

NextFn ==
  \/ Call_is_valid_word
  \/ Call_contains_profanity
  \/ Call_is_base_form
  \/ Call_is_plural
  \/ Call_get_profanity_list

SpecFn == InitFn /\ [][NextFn]_vars

(***************************************************************************)
(* Spec: one run of process_word_list.  pc names the statement group the   *)
(* run executes next; an exception ends the run ("raised": nothing in the  *)
(* script catches it).                                                     *)
(***************************************************************************)
FnIdle ==
  /\ word = "" /\ profanity = NoLists /\ called = "none" /\ ret = FALSE
  /\ ret_lists = [set |-> {}, substrings |-> {}]

\* The environment of a run: the corpus, the limit, the cache file, the
\* remote text and what the request would do.  No request is made when the
\* cache file exists.
Init ==
  /\ FnIdle
  /\ stemmer = "none" /\ valid_words = {} /\ name_set = {}
  /\ pc = "load_sets"
  /\ stop_words = {}
  /\ \/ /\ freq_dict \in Corpora
        /\ NUMBER_OF_WORDS \in Limits
        /\ sowpods_remote = sowpods_txt
     \/ /\ freq_dict = ExampleCorpus
        /\ NUMBER_OF_WORDS = 10
        /\ sowpods_remote = ExampleDictionary
  /\ \/ /\ sowpods_file = [exists |-> TRUE, text |-> LowerText(sowpods_remote)]
        /\ response = "none"
     \/ /\ sowpods_file = NoFile
        /\ response \in Responses
  /\ raw_frequencies = <<>> /\ frequency_file = Unwritten /\ filtered_words = <<>>
  /\ next_item = 1 /\ word_frequencies = <<>> /\ hints_file = Unwritten

\* lines 138-139
LoadSets ==
  /\ pc = "load_sets"
  /\ stop_words' = nltk_stopwords
  /\ name_set' = {lower(name) : name \in nltk_names}
  /\ pc' = "get_sowpods"
  /\ UNCHANGED <<fn_vars, stemmer, valid_words, NUMBER_OF_WORDS, freq_dict, sowpods_file,
                 sowpods_remote, response, raw_frequencies, frequency_file, filtered_words,
                 next_item, word_frequencies, hints_file>>

\* line 140: valid_words = get_sowpods()
GetSowpods ==
  /\ pc = "get_sowpods"
  /\ LET r == get_sowpods(sowpods_file, response, sowpods_remote)
     IN  /\ sowpods_file' = r.file
         /\ \/ /\ r.raised
               /\ pc' = "raised"
               /\ UNCHANGED valid_words
            \/ /\ ~r.raised
               /\ pc' = "setup"
               /\ valid_words' = r.words
  /\ UNCHANGED <<fn_vars, stemmer, name_set, NUMBER_OF_WORDS, stop_words, freq_dict,
                 sowpods_remote, response, raw_frequencies, frequency_file, filtered_words,
                 next_item, word_frequencies, hints_file>>

\* lines 141-145: the stemmer, the profanity lists (never reassigned: the
\* loop reads get_profanity_list) and the corpus
Setup ==
  /\ pc = "setup"
  /\ stemmer' = "snowball"
  /\ pc' = "raw"
  /\ UNCHANGED <<fn_vars, valid_words, name_set, NUMBER_OF_WORDS, stop_words, freq_dict,
                 sowpods_file, sowpods_remote, response, raw_frequencies, frequency_file,
                 filtered_words, next_item, word_frequencies, hints_file>>

\* write_text(header) and one appended line per entry
WriteCsv(rows) == [written |-> TRUE, header |-> "word,frequency", rows |-> rows]

\* lines 149-159
WriteRaw ==
  /\ pc = "raw"
  /\ raw_frequencies' = Take(SortDesc(freq_dict), NUMBER_OF_WORDS)
  /\ frequency_file' = WriteCsv(raw_frequencies')
  /\ filtered_words' = <<>>
  /\ next_item' = 1
  /\ pc' = "loop"
  /\ UNCHANGED <<fn_vars, shared_vars, NUMBER_OF_WORDS, stop_words, freq_dict, sowpods_file,
                 sowpods_remote, response, word_frequencies, hints_file>>

\* lines 161-168: one iteration of the loop over freq_dict.items()
FilterStep ==
  /\ pc = "loop"
  /\ next_item <= Len(freq_dict)
  /\ LET w == lower(freq_dict[next_item][1])
         freq == freq_dict[next_item][2]
     IN  \/ /\ w \in stop_words
            /\ UNCHANGED filtered_words
         \/ /\ w \notin stop_words
            /\ ~is_valid_word(w, valid_words, name_set, stemmer,
                              get_profanity_list.set, get_profanity_list.substrings)
            /\ UNCHANGED filtered_words
         \/ /\ w \notin stop_words
            /\ is_valid_word(w, valid_words, name_set, stemmer,
                             get_profanity_list.set, get_profanity_list.substrings)
            /\ filtered_words' = DictSet(filtered_words, w, freq)
  /\ next_item' = next_item + 1
  /\ UNCHANGED <<fn_vars, shared_vars, pc, NUMBER_OF_WORDS, stop_words, freq_dict,
                 sowpods_file, sowpods_remote, response, raw_frequencies, frequency_file,
                 word_frequencies, hints_file>>

\* lines 171-177
WriteFiltered ==
  /\ pc = "loop"
  /\ next_item > Len(freq_dict)
  /\ word_frequencies' = Take(SortDesc(filtered_words), NUMBER_OF_WORDS)
  /\ hints_file' = WriteCsv(word_frequencies')
  /\ pc' = "done"
  /\ UNCHANGED <<fn_vars, shared_vars, NUMBER_OF_WORDS, stop_words, freq_dict, sowpods_file,
                 sowpods_remote, response, raw_frequencies, frequency_file, filtered_words,
                 next_item>>

Next ==
  \/ LoadSets
  \/ GetSowpods
  \/ Setup
  \/ WriteRaw
  \/ FilterStep
  \/ WriteFiltered

Spec == Init /\ [][Next]_vars

(***************************************************************************)
(* Properties of the predicates (checked under SpecFn).                    *)
(***************************************************************************)
BuiltSet == get_profanity_list.set
BuiltSubstrings == get_profanity_list.substrings

\* sub occurs in s, by its two end positions
OccursIn(sub, s) == \E i \in 1..Len(s) : \E j \in i..Len(s) : SubSeq(s, i, j) = sub

\* the seven rejection conditions of is_valid_word on the lowercased word
Rejection(k, lw) ==
  CASE k = 1 -> Len(lw) <= 2
    [] k = 2 -> \E i \in 1..Len(lw) : CharAt(lw, i) \in DigitSet
    [] k = 3 -> OccursIn("'", lw) \/ OccursIn("-", lw)
    [] k = 4 -> lw \in name_set
    [] k = 5 -> \E i \in 1..Len(lw) : CharAt(lw, i) \notin Letters
    [] k = 6 -> ~is_base_form(lw, stemmer)
    [] k = 7 -> contains_profanity(lw, ArgSet(profanity), ArgSubstrings(profanity))

\* the checks taken one at a time in the given order, stopping at the first
\* that rejects
RECURSIVE EvalInOrder(_, _, _)
EvalInOrder(order, k, lw) ==
  IF k > Len(order) THEN lw \in valid_words
  ELSE IF Rejection(order[k], lw) THEN FALSE
  ELSE EvalInOrder(order, k + 1, lw)

\* every rotation of the written order and of its reverse
Orders ==
  {[k \in 1..7 |-> ((k + r - 1) % 7) + 1] : r \in 0..6} \cup
  {[k \in 1..7 |-> 7 - ((k + r - 1) % 7)] : r \in 0..6}

\* C1: is_valid_word returns false when, on the lowercased word, any of the
\* seven rejection conditions holds (length <= 2, a digit, an apostrophe or
\* hyphen, a name, a non-letter, not base form, profanity); when none holds
\* it returns whether the lowercased word is in the vocabulary; and taking
\* the checks in another order gives the same result.
C1_IsValidWord ==
  called = "is_valid_word" =>
    LET lw == lower(word)
        rejected == \E k \in 1..7 : Rejection(k, lw)
    IN  /\ rejected => ret = FALSE
        /\ ~rejected => ret = (lw \in valid_words)
        /\ \A order \in Orders : EvalInOrder(order, 1, lw) = ret

\* an accepted word that had to be lowercased to be found in the vocabulary
C1_Witness ==
  /\ called = "is_valid_word" /\ ret = TRUE
  /\ word = "Cat" /\ stemmer = "snowball" /\ profanity = BuiltLists

\* C4: contains_profanity returns true exactly when the lowercased word is
\* in profanity_set or some member of profanity_substrings occurs in the
\* lowercased word; so it is true of every member of the set that
\* get_profanity_list returns and of every word with a listed substring.
C4_ContainsProfanity ==
  called = "contains_profanity" =>
    LET lw == lower(word)
    IN  /\ ret = (\/ lw \in ArgSet(profanity)
                  \/ \E sub \in ArgSubstrings(profanity) : OccursIn(sub, lw))
        /\ profanity.built /\ word \in profanity_set_varied => ret = TRUE
        /\ profanity.built /\ (\E sub \in profanity_substrings_literal : OccursIn(sub, word))
             => ret = TRUE

\* a word that matches the exact-match set only after lowercasing
C4_Witness ==
  /\ called = "contains_profanity" /\ ret = TRUE /\ profanity.built
  /\ word = "Fuck" /\ word \notin BuiltSet

\* C5 as stated: with the built lists, "hellscape" is rejected because it
\* contains "hell", and every word containing "ass" is rejected.
C5_Original ==
  called = "contains_profanity" /\ profanity.built =>
    /\ word = "hellscape" => ret = TRUE
    /\ OccursIn("ass", lower(word)) => ret = TRUE

\* C5 amended: with the built lists, every word containing one of the 16
\* listed substrings is rejected; "hell" and "ass" are exact-match words
\* and not listed substrings, so "hellscape" is not rejected, and a word
\* containing "ass" is rejected exactly when it is an exact-match member or
\* contains a listed substring ("ass", "asshole", "dumbass" are rejected,
\* "class" and "bass" are not).
C5_SubstringDenial ==
  called = "contains_profanity" /\ profanity.built =>
    LET lw == lower(word)
        listed == \E sub \in profanity_substrings_literal : OccursIn(sub, lw)
    IN  /\ listed => ret = TRUE
        /\ word = "hellscape" => ret = FALSE
        /\ word \in {"class", "bass"} => ret = FALSE
        /\ word \in {"ass", "asshole", "dumbass"} => ret = TRUE
        /\ OccursIn("ass", lw) => (ret = (lw \in profanity_set_varied \/ listed))

C5_Witness ==
  /\ called = "contains_profanity" /\ profanity.built
  /\ word = "hellscape" /\ ret = FALSE

\* C6: is_base_form is true exactly when the stem equals the word and the
\* word ends in none of ed, ing, s, es, ies; so a word ending in s is never
\* in base form, and "cat" is when its stem is "cat".
C6_IsBaseForm ==
  called = "is_base_form" =>
    LET inflected == \/ endswith(word, "ed") \/ endswith(word, "ing")
                     \/ endswith(word, "s") \/ endswith(word, "es")
                     \/ endswith(word, "ies")
    IN  /\ ret = (stem(stemmer, word) = word /\ ~inflected)
        /\ (Len(word) >= 1 /\ CharAt(word, Len(word)) = "s") => ret = FALSE
        /\ (word = "cat" /\ stem(stemmer, word) = "cat") => ret = TRUE

\* "bus": the stemmer leaves it alone and it is still not in base form
C6_Witness ==
  /\ called = "is_base_form" /\ word = "bus" /\ stemmer = "snowball"
  /\ stem(stemmer, word) = word /\ ret = FALSE

\* the four families of the closure, written out
Closure ==
  UNION {base_profanity,
         {p \o b : p \in prefixes, b \in base_profanity},
         {b \o x : b \in base_profanity, x \in suffixes},
         {b \o v : b \in base_profanity, v \in variations}}

\* C7: every call of get_profanity_list returns exactly base, prefix+base,
\* base+suffix and base+variation: each such combination and nothing else,
\* so nothing built from an already-expanded word unless it is one of
\* these combinations too.
C7_ProfanityClosure ==
  called = "get_profanity_list" =>
    /\ ret_lists.set = Closure
    /\ \A p \in prefixes, x \in suffixes :
         ("fuck" \o x \in ret_lists.set) /\ (p \o "fuck" \in ret_lists.set)
           /\ (p \o "fuck" \o x \in ret_lists.set => p \o "fuck" \o x \in Closure)
    /\ "dumbfuckhead" \notin ret_lists.set

C7_Witness ==
  /\ called = "get_profanity_list"
  /\ {"hell", "dumbfuck", "fuckhead", "fucking"} \subseteq ret_lists.set
  /\ Cardinality(ret_lists.set) > Cardinality(base_profanity)

\* is_valid_word with a rejection by is_plural added to the chain
is_valid_word_with_plural(w, vocabulary, names, stmr, pset, psubs) ==
  LET lw == lower(w)
  IN  IF \/ Len(lw) <= 2
         \/ HasDigit(lw)
         \/ \E p \in {"'", "-"} : Contains(p, lw)
         \/ lw \in names
         \/ ~isalpha(lw)
         \/ ~is_base_form(lw, stmr)
         \/ is_plural(lw, stmr)
         \/ contains_profanity(lw, pset, psubs)
      THEN FALSE
      ELSE lw \in vocabulary

\* C10: whenever is_plural is true of a word, is_base_form is false of it
\* and is_valid_word rejects it whatever the other arguments; and a
\* rejection by is_plural added to is_valid_word changes no result.
C10_PluralSubsumed ==
  /\ (called = "is_plural" /\ ret = TRUE) =>
       /\ is_base_form(word, stemmer) = FALSE
       /\ \A vocabulary \in {{word}, {lower(word)}} :
            is_valid_word(word, vocabulary, {}, stemmer, {}, {}) = FALSE
  /\ called = "is_valid_word" =>
       ret = is_valid_word_with_plural(word, valid_words, name_set, stemmer,
                                       ArgSet(profanity), ArgSubstrings(profanity))

C10_Witness ==
  /\ called = "is_plural" /\ ret = TRUE /\ word = "cats" /\ stemmer = "snowball"

(***************************************************************************)
(* Properties of a run of process_word_list (checked under Spec).          *)
(***************************************************************************)
NonIncreasing(list) == \A a \in 1..(Len(list) - 1) : list[a][2] >= list[a + 1][2]

EntrySet(list) == {list[a] : a \in 1..Len(list)}

\* list holds n of the entries of source, none twice, and no entry left out
\* has a higher frequency than one that is in
TopOf(list, source, n) ==
  /\ Len(list) = Min(n, Len(source))
  /\ Cardinality(EntrySet(list)) = Len(list)
  /\ EntrySet(list) \subseteq EntrySet(source)
  /\ \A e \in EntrySet(source) \ EntrySet(list) : \A a \in 1..Len(list) : list[a][2] >= e[2]

\* C2 as stated: the filtered list is exactly the corpus entries whose word
\* is no stopword and passes is_valid_word, with their corpus frequency,
\* by descending frequency, cut to NUMBER_OF_WORDS; no word absent from the
\* corpus appears in it; and for the example corpus with stopwords {the}
\* and vocabulary {apple, cats} it is [(apple, 80)].
C2_Original ==
  pc = "done" =>
    LET Kept(e) ==
          /\ e[1] \notin stop_words
          /\ is_valid_word(e[1], valid_words, name_set, stemmer, BuiltSet, BuiltSubstrings)
    IN  /\ word_frequencies = Take(SortDesc(SelectSeq(freq_dict, Kept)), NUMBER_OF_WORDS)
        /\ \A a \in 1..Len(word_frequencies) :
             \E b \in 1..Len(freq_dict) : freq_dict[b][1] = word_frequencies[a][1]
        /\ (freq_dict = ExampleCorpus /\ stop_words = {"the"}
              /\ valid_words = {"apple", "cats"})
             => word_frequencies = <<(<<"apple", 80>>)>>

\* the lowercased corpus words that are no stopword and pass is_valid_word
KeptWords ==
  {lw \in {lower(freq_dict[p][1]) : p \in 1..Len(freq_dict)} :
     /\ lw \notin stop_words
     /\ is_valid_word(lw, valid_words, name_set, stemmer, BuiltSet, BuiltSubstrings)}

\* the frequency of the last corpus entry whose lowercased word is w
LastFrequency(w) ==
  LET last == CHOOSE p \in 1..Len(freq_dict) :
                /\ lower(freq_dict[p][1]) = w
                /\ \A q \in (p + 1)..Len(freq_dict) : lower(freq_dict[q][1]) # w
  IN  freq_dict[last][2]

\* C2 amended: the filtered list holds lowercased words: those of the
\* corpus entries whose lowercased word is no stopword and passes
\* is_valid_word, each once and with the frequency of its last corpus
\* entry, by descending frequency, cut to NUMBER_OF_WORDS; no stopword, no
\* invalid word and no word that is not the lowercased form of a corpus
\* word appears in it.  For a corpus of lowercase words this is the list
\* as stated.  For the example corpus the list is empty: the Snowball stem
\* of "apple" is "appl", so "apple" is not in base form either.
C2_FilteredList ==
  pc = "done" =>
    LET listed == {word_frequencies[a][1] : a \in 1..Len(word_frequencies)}
        Kept(e) ==
          /\ e[1] \notin stop_words
          /\ is_valid_word(e[1], valid_words, name_set, stemmer, BuiltSet, BuiltSubstrings)
    IN  /\ listed \subseteq KeptWords
        /\ Len(word_frequencies) = Min(NUMBER_OF_WORDS, Cardinality(KeptWords))
        /\ Cardinality(listed) = Len(word_frequencies)
        /\ \A a \in 1..Len(word_frequencies) :
             word_frequencies[a][2] = LastFrequency(word_frequencies[a][1])
        /\ NonIncreasing(word_frequencies)
        /\ \A w \in KeptWords \ listed :
             \A a \in 1..Len(word_frequencies) : word_frequencies[a][2] >= LastFrequency(w)
        /\ (\A p \in 1..Len(freq_dict) : lower(freq_dict[p][1]) = freq_dict[p][1])
             => word_frequencies =
                  Take(SortDesc(SelectSeq(freq_dict, Kept)), NUMBER_OF_WORDS)
        /\ (freq_dict = ExampleCorpus /\ stop_words = {"the"}
              /\ valid_words = {"apple", "cats"})
             => word_frequencies = <<>>

\* the example run, finished
C2_Witness ==
  /\ pc = "done" /\ freq_dict = ExampleCorpus /\ NUMBER_OF_WORDS = 10
  /\ stop_words = {"the"} /\ valid_words = {"apple", "cats"}
  /\ stemmer = "snowball" /\ stem(stemmer, "apple") = "appl"
  /\ hints_file.written /\ hints_file.rows = <<>>

C8_FetchFailureIsFatal ==
  (~sowpods_file.exists /\ response \in {"404", "500", "ConnectionError"}) =>
    /\ pc \in {"load_sets", "get_sowpods", "raised"}
    /\ valid_words = {}
    /\ ~frequency_file.written
    /\ ~hints_file.written

C8_Witness ==
  /\ pc = "raised" /\ ~sowpods_file.exists /\ response = "404"
  /\ ~frequency_file.written /\ ~hints_file.written

\* positions of the corpus entries an output entry can come from: the word
\* (lowercased, for the filtered list) and the frequency agree
Origins(e, lowered) ==
  {p \in 1..Len(freq_dict) :
     /\ (IF lowered THEN lower(freq_dict[p][1]) ELSE freq_dict[p][1]) = e[1]
     /\ freq_dict[p][2] = e[2]}

\* entries of equal frequency stand in the order of the corpus entries they
\* come from
InCorpusOrder(list, lowered) ==
  \A a, b \in 1..Len(list) :
    (a < b /\ list[a][2] = list[b][2]) =>
      \E p \in Origins(list[a], lowered), q \in Origins(list[b], lowered) : p < q

\* C9 as stated: in the raw and in the filtered list, entries of equal
\* frequency appear in the relative order of the input corpus.
C9_Original ==
  /\ pc \in {"loop", "done"} => InCorpusOrder(raw_frequencies, FALSE)
  /\ pc = "done" => InCorpusOrder(word_frequencies, TRUE)

\* the first corpus position whose lowercased word is w
FirstPosition(w) ==
  CHOOSE p \in 1..Len(freq_dict) :
    /\ lower(freq_dict[p][1]) = w
    /\ \A q \in 1..(p - 1) : lower(freq_dict[q][1]) # w

\* C9 amended: in the raw list, entries of equal frequency appear in corpus
\* order; in the filtered list they appear in the order in which their
\* lowercased words first occur in the corpus, which is corpus order
\* whenever no two corpus words share a lowercased form.
C9_StableOnTies ==
  /\ pc \in {"loop", "done"} => InCorpusOrder(raw_frequencies, FALSE)
  /\ pc = "done" =>
       /\ \A a, b \in 1..Len(word_frequencies) :
            (a < b /\ word_frequencies[a][2] = word_frequencies[b][2]) =>
              FirstPosition(word_frequencies[a][1]) < FirstPosition(word_frequencies[b][1])
       /\ (\A p, q \in 1..Len(freq_dict) :
             p # q => lower(freq_dict[p][1]) # lower(freq_dict[q][1]))
            => InCorpusOrder(word_frequencies, TRUE)

\* a tie in the filtered list between a word the corpus spells with a
\* capital and another word
C9_Witness ==
  /\ pc = "done" /\ Len(word_frequencies) = 2 /\ Len(raw_frequencies) >= 2
  /\ word_frequencies[1][2] = word_frequencies[2][2]
  /\ raw_frequencies[1][2] = raw_frequencies[2][2]
  /\ \E p \in 1..Len(freq_dict) : freq_dict[p][1] = "Cat"

=============================================================================
